---- MODULE Spec2Model ----
(***************************************************************************)
(* Induction-motor startup simulation (vfd_simulation_v2/v3/v4.py).        *)
(*                                                                         *)
(* The scripts compute in IEEE doubles; this model computes in scaled      *)
(* integers that fit TLC's 32-bit arithmetic:                              *)
(*   dimensionless ratios (slip, speed ratio, voltage ratio) : 1e-6 (ONE)  *)
(*   frequency        : mHz              angular speed : 1e-5 rad/s        *)
(*   torque           : 0.01 Nm          voltage       : 0.01 V            *)
(*   current          : 0.1 A            power         : 0.01 kW           *)
(*   energy           : 0.01 kJ          efficiency    : 0.01 %            *)
(*   slip series      : 1e-4 % (slip * 100 of the source, slip in 1e-6)    *)
(* Every division rounds down, as \div does.                               *)
(*                                                                         *)
(* Time is counted in integration ticks: SubSteps ticks separate two       *)
(* output samples and RampTicks ticks span the ramp, so a tick lasts       *)
(* ramp_time / RampTicks seconds and t / ramp_time of the source is        *)
(* t / RampTicks here.  scipy's odeint is modelled by explicit Euler       *)
(* steps, one per tick, on the script's derivative function.               *)
(***************************************************************************)
EXTENDS Integers, Sequences, FiniteSets

\* ------------------------------------------------------------------ bounds
\* Output samples of a run.  The scripts set TIME_POINTS = 1000; the model
\* samples the same ramp at fewer points and keeps the tick short with SubSteps.
TIME_POINTS == 200
\* Euler steps between two output samples.
SubSteps == 40

\* ----------------------------------------------------- fixed-point helpers
ONE == 1000 * 1000

\* floor(a * 10^6 / c) for 0 < c < 2^31 / 100, by long division in base 100.
Frac6(a, c) ==
    LET q0 == a \div c
        r0 == a % c
        q1 == (r0 * 100) \div c
        r1 == (r0 * 100) % c
        q2 == (r1 * 100) \div c
        r2 == (r1 * 100) % c
        q3 == (r2 * 100) \div c
    IN  q0 * ONE + q1 * 10000 + q2 * 100 + q3

\* floor(x * y / 10^6), y split in base 1000.
Mul6(x, y) ==
    LET yh == y \div 1000
        yl == y % 1000
    IN  (x * yh + (x * yl) \div 1000) \div 1000

\* floor(x * y / 1000).
MulK(x, y) == x * (y \div 1000) + (x * (y % 1000)) \div 1000

\* floor(x * y / d) for 0 <= y, 0 < d, (d - 1) * y < 2^31.
MulDiv(x, y, d) == (x \div d) * y + ((x % d) * y) \div d

\* s * s for s in 1e-6, result in 1e-6.
Sq6(s) ==
    LET sh == s \div 1000
        sl == s % 1000
    IN  sh * sh + (2 * sh * sl + (sl * sl) \div 1000) \div 1000

\* np.clip / max(lo, min(x, hi)).
clip(x, lo, hi) == IF x < lo THEN lo ELSE IF x > hi THEN hi ELSE x

RECURSIVE SqrtBetween(_, _, _)
SqrtBetween(n, lo, hi) ==
    IF lo >= hi THEN lo
    ELSE LET mid == (lo + hi + 1) \div 2
         IN  IF mid * mid <= n THEN SqrtBetween(n, mid, hi)
                               ELSE SqrtBetween(n, lo, mid - 1)

\* np.sqrt, rounded down, for 0 <= n < 2^31.
sqrt(n) == SqrtBetween(n, 0, 46340)

\* (rpm in 1e-3) * (2 * pi / 60), in 1e-5 rad/s: 10.472 units per milli-rpm.
RadPerSec(mrpm) == mrpm * 10 + (mrpm * 472) \div 1000

\* ------------------------------------------------ configuration parameters
POWER_HP == 800
POWER_W == (POWER_HP * 7457) \div 10
VOLTAGE == 460 * 100
BASE_FREQ == 60 * 1000
POLES == 4
EFFICIENCY == 95
POWER_FACTOR == 88

SYNC_SPEED_RPM == (120 * (BASE_FREQ \div 1000)) \div POLES
SYNC_SPEED_RAD == RadPerSec(SYNC_SPEED_RPM * 1000)
\* POWER_KW * 1000 / (SYNC_SPEED_RAD * (1 - 0.03)), in 0.01 Nm.
RATED_TORQUE == Frac6(POWER_W, (SYNC_SPEED_RAD * 97) \div 1000)

INERTIA == 150
DAMPING == 2
LOAD_TORQUE_FACTOR == 75
V_BOOST == 150 * 1000
SQRT3 == 1732051

\* ------------------------------------------------------ derived parameters
\* POWER_KW * 1000 / (sqrt(3) * VOLTAGE * POWER_FACTOR * EFFICIENCY), in 0.1 A.
FLA ==
    Frac6(POWER_W, (Mul6(VOLTAGE, SQRT3) * POWER_FACTOR * EFFICIENCY) \div 1000)
        \div 100
LOAD_TORQUE == (RATED_TORQUE * LOAD_TORQUE_FACTOR) \div 100

\* Ticks spanned by the ramp: time = np.linspace(0, RAMP_TIME, TIME_POINTS).
RampTicks == (TIME_POINTS - 1) * SubSteps

\* -------------------------------------------------------------- load model
\* get_load_torque without its first line, the clamp of speed_ratio to [0, 1].
get_load_torque_unclamped(speed_ratio, base_torque, load_type) ==
    LET sr == speed_ratio
    IN  CASE load_type = "constant_torque" ->
                Mul6(base_torque, 300000 + (7 * sr) \div 10)
          [] load_type = "fan_pump" ->
                Mul6(base_torque, Sq6(sr))
          [] load_type = "constant_power" ->
                IF sr < 100000
                THEN (base_torque * 100) \div 100
                ELSE Frac6(base_torque, sr)
          [] OTHER ->
                Mul6(base_torque, 300000 + (7 * sr) \div 10)

\* get_load_torque whose constant_torque branch is base_torque * speed_ratio,
\* without the 0.3 breakaway floor.
get_load_torque_no_breakaway(speed_ratio, base_torque, load_type) ==
    LET sr == clip(speed_ratio, 0, ONE)
    IN  CASE load_type = "constant_torque" ->
                Mul6(base_torque, sr)
          [] load_type = "fan_pump" ->
                Mul6(base_torque, Sq6(sr))
          [] load_type = "constant_power" ->
                IF sr < 100000
                THEN (base_torque * 100) \div 100
                ELSE Frac6(base_torque, sr)
          [] OTHER ->
                Mul6(base_torque, 300000 + (7 * sr) \div 10)

\* get_load_torque whose else branch returns no load for an unknown load type.
get_load_torque_unknown_is_no_load(speed_ratio, base_torque, load_type) ==
    LET sr == clip(speed_ratio, 0, ONE)
    IN  CASE load_type = "constant_torque" ->
                Mul6(base_torque, 300000 + (7 * sr) \div 10)
          [] load_type = "fan_pump" ->
                Mul6(base_torque, Sq6(sr))
          [] load_type = "constant_power" ->
                IF sr < 100000
                THEN (base_torque * 100) \div 100
                ELSE Frac6(base_torque, sr)
          [] OTHER -> 0

get_load_torque(speed_ratio, base_torque, load_type) ==
    LET sr == clip(speed_ratio, 0, ONE)
    IN  CASE load_type = "constant_torque" ->
                Mul6(base_torque, 300000 + (7 * sr) \div 10)
          [] load_type = "fan_pump" ->
                Mul6(base_torque, Sq6(sr))
          [] load_type = "constant_power" ->
                IF sr < 100000
                THEN (base_torque * 100) \div 100
                ELSE Frac6(base_torque, sr)
          [] OTHER ->
                Mul6(base_torque, 300000 + (7 * sr) \div 10)

\* ------------------------------------------------------------- control law
\* vfd_freq_func that ignores the ramp and commands base frequency at once.
vfd_freq_func_no_ramp(t, ramp_time) == BASE_FREQ

\* vfd_freq_func without the hold at base frequency after the ramp.
vfd_freq_func_never_holds(t, ramp_time) == (BASE_FREQ * t) \div ramp_time

vfd_freq_func(t, ramp_time) ==
    IF t <= ramp_time THEN (BASE_FREQ * t) \div ramp_time ELSE BASE_FREQ

\* The boost term of vfd_voltage_func at freq.
voltage_boost(freq) ==
    Mul6(Mul6(VOLTAGE, V_BOOST), ONE - Frac6(freq, BASE_FREQ \div 10))

\* vfd_voltage_func that keeps adding the boost term up to 20 % of base frequency.
vfd_voltage_func_boost_to_twenty_percent(freq) ==
    LET base_voltage == Mul6(VOLTAGE, Frac6(freq, BASE_FREQ))
    IN  IF freq < BASE_FREQ \div 5
        THEN base_voltage + voltage_boost(freq)
        ELSE base_voltage

vfd_voltage_func(freq) ==
    LET base_voltage == Mul6(VOLTAGE, Frac6(freq, BASE_FREQ))
    IN  IF freq < BASE_FREQ \div 10
        THEN base_voltage
             + Mul6(Mul6(VOLTAGE, V_BOOST), ONE - Frac6(freq, BASE_FREQ \div 10))
        ELSE base_voltage

\* soft_start_voltage_func that starts at 0.3 whatever initial_voltage is.
soft_start_voltage_func_fixed_initial(t, ramp_time, initial_voltage) ==
    IF t <= ramp_time
    THEN Mul6(VOLTAGE, 300000 + Mul6(ONE - 300000, Frac6(t, ramp_time)))
    ELSE VOLTAGE

\* soft_start_voltage_func whose ramp starts at zero volts.
soft_start_voltage_func_from_zero(t, ramp_time, initial_voltage) ==
    IF t <= ramp_time THEN Mul6(VOLTAGE, Frac6(t, ramp_time)) ELSE VOLTAGE

soft_start_voltage_func(t, ramp_time, initial_voltage) ==
    IF t <= ramp_time
    THEN Mul6(VOLTAGE,
              initial_voltage + Mul6(ONE - initial_voltage, Frac6(t, ramp_time)))
    ELSE VOLTAGE

\* ------------------------------------------------------------ torque model
\* Synchronous speed at freq: (120 * freq / POLES) * (2 * pi / 60).
sync_speed(freq) == RadPerSec((120 * freq) \div POLES)

\* (sync_speed_rad - omega_rad) / sync_speed_rad, before clipping.
raw_slip(sync_speed_rad, omega_rad) ==
    Frac6(sync_speed_rad - omega_rad, sync_speed_rad)

\* clip_slip with a lower bound of -0.1 instead of 0.
clip_slip_regenerating(s) == clip(s, 0 - ONE \div 10, ONE)

\* np.clip(slip, 0, 1.0).
clip_slip(s) == clip(s, 0, ONE)

\* (a * slip) / (slip**2 + b * slip + c) with a, b, c = 2.5, 0.15, 0.08.
\* torque_ratio with c = 0.8 in place of 0.08.
torque_ratio_c_tenfold(slip) ==
    Frac6((25 * slip) \div 10, Sq6(slip) + (15 * slip) \div 100 + 800000)

torque_ratio(slip) ==
    Frac6((25 * slip) \div 10, Sq6(slip) + (15 * slip) \div 100 + 80000)

\* RATED_TORQUE * 2.5 * slip * (1 + V_BOOST * 5): the startup regime.
startup_torque(slip) ==
    Mul6(Mul6((RATED_TORQUE * 25) \div 10, slip), ONE + V_BOOST * 5)

\* 1 + V_BOOST * (1 - freq / (BASE_FREQ * 0.15)).
boost_factor(freq) ==
    ONE + Mul6(V_BOOST, ONE - Frac6(freq, (BASE_FREQ * 15) \div 100))

\* RATED_TORQUE * torque_ratio * freq_ratio, boosted below 15 % of BASE_FREQ.
normal_torque(slip, freq) ==
    LET torque_em == Mul6(Mul6(RATED_TORQUE, torque_ratio(slip)),
                          Frac6(freq, BASE_FREQ))
    IN  IF freq < (BASE_FREQ * 15) \div 100
        THEN Mul6(torque_em, boost_factor(freq))
        ELSE torque_em

\* (torque_em - effective_load - DAMPING * omega_rad) / INERTIA, in 1e-5 rad/s^2.
equation_of_motion(torque_em, effective_load, omega_rad) ==
    ((torque_em - effective_load - (DAMPING * omega_rad) \div 1000) * 100)
        \div (INERTIA \div 10)

speed_ratio_of(omega_rad) ==
    IF SYNC_SPEED_RAD > 0 THEN Frac6(omega_rad, SYNC_SPEED_RAD) ELSE 0

\* The branch of the VFD derivative function taken at freq: "degenerate"
\* (freq < 1.0 and sync_speed_rad < 0.1: return [0]), "startup" (freq < 1.0)
\* or "normal".
vfd_regime(freq) ==
    IF freq < 1000
    THEN IF sync_speed(freq) < 10000 THEN "degenerate" ELSE "startup"
    ELSE "normal"

\* slip = np.clip((sync_speed_rad - omega_rad) / sync_speed_rad, 0, 1.0).
vfd_slip(omega_rad, freq) == clip_slip(raw_slip(sync_speed(freq), omega_rad))

\* torque_em of the VFD derivative function in its startup and normal regimes.
vfd_torque_em(omega_rad, freq) ==
    IF freq < 1000
    THEN startup_torque(vfd_slip(omega_rad, freq))
    ELSE normal_torque(vfd_slip(omega_rad, freq), freq)

\* vfd_motor_dynamics whose degenerate branch sets the torque to 0 and goes on
\* to the equation of motion instead of returning [0].
vfd_motor_dynamics_coasting(omega_rad, t, base_load_torque, load_type, ramp_time) ==
    LET freq == vfd_freq_func(t, ramp_time)
        effective_load ==
            get_load_torque(speed_ratio_of(omega_rad), base_load_torque, load_type)
    IN  IF vfd_regime(freq) = "degenerate"
        THEN equation_of_motion(0, effective_load, omega_rad)
        ELSE equation_of_motion(vfd_torque_em(omega_rad, freq), effective_load, omega_rad)

\* v3 motor_dynamics, v4 vfd_motor_dynamics.
vfd_motor_dynamics(omega_rad, t, base_load_torque, load_type, ramp_time) ==
    LET freq == vfd_freq_func(t, ramp_time)
        effective_load ==
            get_load_torque(speed_ratio_of(omega_rad), base_load_torque, load_type)
    IN  IF vfd_regime(freq) = "degenerate"
        THEN 0
        ELSE equation_of_motion(vfd_torque_em(omega_rad, freq), effective_load, omega_rad)

\* v2 motor_dynamics: the load is load_torque * 0.3 in the startup regime and
\* load_torque * (0.3 + 0.7 * speed_ratio), speed_ratio unclamped, above it.
motor_dynamics_v2(omega_rad, t, load_torque, ramp_time) ==
    LET freq == vfd_freq_func(t, ramp_time)
        effective_load ==
            IF freq < 1000
            THEN (load_torque * 3) \div 10
            ELSE Mul6(load_torque, 300000 + (7 * speed_ratio_of(omega_rad)) \div 10)
    IN  IF vfd_regime(freq) = "degenerate"
        THEN 0
        ELSE equation_of_motion(vfd_torque_em(omega_rad, freq), effective_load, omega_rad)

\* voltage_ratio = voltage / VOLTAGE of the soft starter at t.
soft_start_voltage_ratio(t, ramp_time, initial_voltage) ==
    Frac6(soft_start_voltage_func(t, ramp_time, initial_voltage), VOLTAGE)

\* slip of the soft-starter derivative function: the frequency is BASE_FREQ.
soft_start_slip(omega_rad) == clip_slip(raw_slip(SYNC_SPEED_RAD, omega_rad))

soft_start_torque(slip, voltage_ratio) ==
    Mul6(Mul6(RATED_TORQUE, torque_ratio(slip)), Sq6(voltage_ratio))

soft_start_motor_dynamics(omega_rad, t, base_load_torque, load_type, ramp_time, initial_voltage) ==
    LET voltage_ratio == soft_start_voltage_ratio(t, ramp_time, initial_voltage)
        effective_load ==
            get_load_torque(speed_ratio_of(omega_rad), base_load_torque, load_type)
    IN  equation_of_motion(soft_start_torque(soft_start_slip(omega_rad), voltage_ratio),
                           effective_load, omega_rad)

\* ------------------------------------------------------------------- state
VARIABLES
    version,        \* which script runs: "v2", "v3" or "v4"
    method,         \* "vfd" or "soft_starter" (v4 runs both)
    LOAD_TYPE,      \* configuration: the load category
    RAMP_TIME,      \* configuration: RAMP_TIME / VFD_RAMP_TIME / SOFT_START_RAMP_TIME, s
    SOFT_START_INITIAL_VOLTAGE,  \* configuration, in 1e-6
    pc,             \* "odeint", "metrics", "summary", "done" or "ZeroDivisionError"
    i,              \* the sample odeint has reached / the metrics loop index
    omega_rad,      \* solution[:, 0], sample i at index i
    slip, torque, current, load_torque_array,
    power_in, power_out, efficiency, voltage_array,
    energy_kj, peak_current,
    avg_efficiency, \* v3: np.mean of the positive efficiency samples, 0 before the summary
    previous,       \* ramp time and startup energy reported by the run before this one
    istate,         \* LSODA's flag inside odeint: 1 first call, 2 success, -1 excess work
    call            \* the last direct call of one function, with its arguments and result

vars == <<version, method, LOAD_TYPE, RAMP_TIME, SOFT_START_INITIAL_VOLTAGE, pc, i,
          omega_rad, slip, torque, current, load_torque_array,
          power_in, power_out, efficiency, voltage_array, energy_kj, peak_current,
          avg_efficiency, previous, istate, call>>

config == <<version, method, LOAD_TYPE, RAMP_TIME, SOFT_START_INITIAL_VOLTAGE>>
series == <<slip, torque, current, load_torque_array,
            power_in, power_out, efficiency, voltage_array>>

Samples == 0 .. (TIME_POINTS - 1)
\* np.zeros(n_points), np.zeros_like(time).
zeros == [n \in Samples |-> 0]
\* time[n], in ticks.
time(n) == n * SubSteps

Versions == {"v2", "v3", "v4"}
LoadTypes == {"constant_torque", "fan_pump", "constant_power"}
\* LOAD_TYPE is assigned as a string and never checked: the supported tags and
\* one that get_load_torque does not know.
LoadTags == LoadTypes \cup {"hoist"}
VfdRampTimes == {10, 30}
SoftStartRampTimes == {20}
\* The ramp times are assigned as numbers and never checked: 0 is accepted.
UncheckedRampTimes == {0}
\* The output samples at which LSODA may run out of steps, and what the rows
\* it never wrote may hold.
GiveUpSamples == {TIME_POINTS \div 2}
LeftoverValues == {0, SYNC_SPEED_RAD \div 2}
InitialVoltages == {300000, ONE}

\* ------------------------------------------------------ dynamics integrator
\* The derivative function handed to odeint by the running script.
derivative(w, t) ==
    IF method = "soft_starter"
    THEN soft_start_motor_dynamics(w, t, LOAD_TORQUE, LOAD_TYPE, RampTicks, SOFT_START_INITIAL_VOLTAGE)
    ELSE IF version = "v2"
         THEN motor_dynamics_v2(w, t, LOAD_TORQUE, RampTicks)
         ELSE vfd_motor_dynamics(w, t, LOAD_TORQUE, LOAD_TYPE, RampTicks)

\* One Euler step: a tick lasts RAMP_TIME / RampTicks seconds.
euler_step(w, t) == w + (derivative(w, t) * RAMP_TIME) \div RampTicks

RECURSIVE euler(_, _, _)
euler(w, t, n) == IF n = 0 THEN w ELSE euler(euler_step(w, t), t + 1, n - 1)

no_previous == [ramp |-> 0, energy |-> 0]
no_call == [fn |-> "none"]

Init ==
    /\ version \in Versions
    /\ method \in (IF version = "v4" THEN {"vfd", "soft_starter"} ELSE {"vfd"})
    /\ LOAD_TYPE \in (IF version = "v2" THEN {"constant_torque"} ELSE LoadTags)
    /\ RAMP_TIME \in (IF method = "vfd" THEN VfdRampTimes ELSE SoftStartRampTimes)
                         \cup UncheckedRampTimes
    /\ SOFT_START_INITIAL_VOLTAGE \in
           (IF method = "soft_starter" THEN InitialVoltages ELSE {300000})
    /\ pc = "odeint"
    /\ i = 0
    /\ omega_rad = zeros
    /\ slip = zeros /\ torque = zeros /\ current = zeros
    /\ load_torque_array = zeros /\ power_in = zeros /\ power_out = zeros
    /\ efficiency = zeros /\ voltage_array = zeros
    /\ energy_kj = 0 /\ peak_current = 0 /\ avg_efficiency = 0
    /\ previous = no_previous
    /\ istate = 1
    /\ call = no_call

\* odeint(..., [0], time, ...): the solution at the next output sample.
Odeint ==
    /\ pc = "odeint"
    /\ RAMP_TIME > 0
    /\ i < TIME_POINTS - 1
    /\ omega_rad' = [omega_rad EXCEPT ![i + 1] = euler(omega_rad[i], time(i), SubSteps)]
    /\ i' = i + 1
    /\ istate' = 2
    /\ UNCHANGED <<config, pc, series, energy_kj, peak_current, avg_efficiency, previous, call>>

\* LSODA uses up its step budget (mxstep) on the way to the next output time:
\* odeint warns and returns at once. It was called without full_output, and
\* the script reads solution[:, 0] as it does after a success; the rows odeint
\* did not reach hold whatever the output array held.
OdeintGivesUp ==
    /\ pc = "odeint"
    /\ RAMP_TIME > 0
    /\ i \in GiveUpSamples
    /\ \E leftover \in LeftoverValues :
           omega_rad' = [n \in Samples |-> IF n <= i THEN omega_rad[n] ELSE leftover]
    /\ istate' = -1
    /\ pc' = "metrics"
    /\ i' = 0
    /\ UNCHANGED <<config, series, energy_kj, peak_current, avg_efficiency, previous, call>>

\* With a ramp time of 0 the first call of the derivative function evaluates
\* t / ramp_time in vfd_freq_func or soft_start_voltage_func (t <= ramp_time
\* holds at t = 0): ZeroDivisionError leaves odeint and ends the script.
OdeintRaises ==
    /\ pc = "odeint"
    /\ RAMP_TIME <= 0
    /\ pc' = "ZeroDivisionError"
    /\ UNCHANGED <<config, istate, i, omega_rad, series, energy_kj, peak_current, avg_efficiency, previous, call>>

OdeintDone ==
    /\ pc = "odeint"
    /\ i = TIME_POINTS - 1
    /\ pc' = "metrics"
    /\ i' = 0
    /\ UNCHANGED <<config, istate, omega_rad, series, energy_kj, peak_current, avg_efficiency, previous, call>>

\* ---------------------------------------------------------- metrics engine
\* slip = (sync - omega) / sync if sync > 0 else 1.0; slip = np.clip(slip, 0, 1.0).
metrics_slip(sync_speed_rad, w) ==
    clip_slip(IF sync_speed_rad > 0 THEN raw_slip(sync_speed_rad, w) ELSE ONE)

\* The magnetizing component of the current: FLA * 0.3.
magnetizing_component == (FLA * 3) \div 10

\* motor_current made of the torque component alone.
motor_current_torque_only(torque_em) == Mul6(FLA, Frac6(torque_em, RATED_TORQUE))

\* sqrt(torque_component**2 + magnetizing_component**2),
\* torque_component = FLA * (torque_em / RATED_TORQUE).
motor_current(torque_em) ==
    LET torque_component == Mul6(FLA, Frac6(torque_em, RATED_TORQUE))
    IN  sqrt(torque_component * torque_component
             + magnetizing_component * magnetizing_component)

\* (omega_rad[i] * load_torque_array[i]) / 1000.
output_power(w, load) == ((load \div 100) * (w \div 1000)) \div 1000

\* (sqrt(3) * voltage * current * POWER_FACTOR) / 1000.
input_power(voltage, amps) ==
    Mul6((MulK(voltage, amps) * POWER_FACTOR) \div 1000, SQRT3)

\* (power_out / power_in) * 100 if power_in > 0, else 0.
efficiency_of(p_out, p_in) == IF p_in > 0 THEN Frac6(p_out, p_in) \div 100 ELSE 0

\* The torque the v2 and v3 metrics loops recompute: both regimes of the dynamics.
metrics_torque_v3(s, freq) ==
    IF freq < 1000 THEN startup_torque(s) ELSE normal_torque(s, freq)

\* inflate_current without the voltage_ratio > 0.3 test.
inflate_current_any_voltage(amps, voltage_ratio) ==
    Mul6(amps, Frac6(1200000, voltage_ratio))

\* current[i] *= 1.2 / voltage_ratio when voltage_ratio > 0.3 (soft starter, t < ramp_time).
inflate_current(amps, voltage_ratio) ==
    IF voltage_ratio > 300000
    THEN Mul6(amps, Frac6(1200000, voltage_ratio))
    ELSE amps

\* One pass of the v2 metrics loop (lines 154-188): slip, torque, current.
metrics_v2(n) ==
    LET freq == vfd_freq_func(time(n), RampTicks)
        s == metrics_slip(sync_speed(freq), omega_rad[n])
        torque_em == metrics_torque_v3(s, freq)
    IN  IF freq >= 500
        THEN [slip |-> s * 100, torque |-> torque_em, current |-> motor_current(torque_em),
              load |-> load_torque_array[n], p_out |-> power_out[n],
              p_in |-> power_in[n], eff |-> efficiency[n], volt |-> voltage_array[n]]
        ELSE [slip |-> 100 * ONE, torque |-> 0, current |-> 0,
              load |-> load_torque_array[n], p_out |-> power_out[n],
              p_in |-> power_in[n], eff |-> efficiency[n], volt |-> voltage_array[n]]

\* One pass of the v3 metrics loop (lines 217-266).
metrics_v3(n) ==
    LET freq == vfd_freq_func(time(n), RampTicks)
        s == metrics_slip(sync_speed(freq), omega_rad[n])
        torque_em == metrics_torque_v3(s, freq)
        load == get_load_torque(speed_ratio_of(omega_rad[n]), LOAD_TORQUE, LOAD_TYPE)
        amps == motor_current(torque_em)
        p_out == output_power(omega_rad[n], load)
        p_in == input_power(VOLTAGE, amps)
    IN  IF freq >= 500
        THEN [slip |-> s * 100, torque |-> torque_em, current |-> amps,
              load |-> load, p_out |-> p_out, p_in |-> p_in,
              eff |-> efficiency_of(p_out, p_in), volt |-> voltage_array[n]]
        ELSE [slip |-> 100 * ONE, torque |-> 0, current |-> 0,
              load |-> 0, p_out |-> power_out[n], p_in |-> power_in[n],
              eff |-> 0, volt |-> voltage_array[n]]

\* What the arrays hold at n when the loop body does not write them.
untouched(n) ==
    [slip |-> slip[n], torque |-> torque[n], current |-> current[n],
     load |-> load_torque_array[n], p_out |-> power_out[n], p_in |-> power_in[n],
     eff |-> efficiency[n], volt |-> voltage_array[n]]

\* One pass of the loop of v4 calculate_metrics (lines 217-268).
calculate_metrics(n, meth, ramp_time) ==
    LET t == time(n)
        freq == IF meth = "vfd" THEN vfd_freq_func(t, ramp_time) ELSE BASE_FREQ
        sync_speed_rad == IF meth = "vfd" THEN sync_speed(freq) ELSE SYNC_SPEED_RAD
        volt == IF meth = "vfd"
                THEN vfd_voltage_func(freq)
                ELSE soft_start_voltage_func(t, ramp_time, SOFT_START_INITIAL_VOLTAGE)
        s == metrics_slip(sync_speed_rad, omega_rad[n])
        voltage_ratio == Frac6(volt, VOLTAGE)
        torque_em == IF meth = "vfd"
                     THEN normal_torque(s, freq)
                     ELSE soft_start_torque(s, voltage_ratio)
        load == get_load_torque(speed_ratio_of(omega_rad[n]), LOAD_TORQUE, LOAD_TYPE)
        amps == IF meth = "soft_starter" /\ t < ramp_time
                THEN inflate_current(motor_current(torque_em), voltage_ratio)
                ELSE motor_current(torque_em)
        p_out == output_power(omega_rad[n], load)
        p_in == input_power(volt, amps)
    IN  IF meth = "vfd" /\ freq < 500
        THEN untouched(n)
        ELSE [slip |-> s * 100, torque |-> torque_em, current |-> amps,
              load |-> load, p_out |-> p_out, p_in |-> p_in,
              eff |-> IF p_in > 0 THEN efficiency_of(p_out, p_in) ELSE efficiency[n],
              volt |-> volt]

\* A metrics loop that computes element n from time[n - 1] and omega_rad[n - 1].
metrics_sample_off_by_one(n) ==
    LET k == IF n > 0 THEN n - 1 ELSE 0
    IN  CASE version = "v2" -> metrics_v2(k)
          [] version = "v3" -> metrics_v3(k)
          [] OTHER -> calculate_metrics(k, method, RampTicks)

\* The values the running script's metrics loop leaves at sample n.
metrics_sample(n) ==
    CASE version = "v2" -> metrics_v2(n)
      [] version = "v3" -> metrics_v3(n)
      [] OTHER -> calculate_metrics(n, method, RampTicks)

\* for i, t in enumerate(time): one pass of the loop body.
Metrics ==
    /\ pc = "metrics"
    /\ i < TIME_POINTS
    /\ LET m == metrics_sample(i)
       IN  /\ slip' = [slip EXCEPT ![i] = m.slip]
           /\ torque' = [torque EXCEPT ![i] = m.torque]
           /\ current' = [current EXCEPT ![i] = m.current]
           /\ load_torque_array' = [load_torque_array EXCEPT ![i] = m.load]
           /\ power_out' = [power_out EXCEPT ![i] = m.p_out]
           /\ power_in' = [power_in EXCEPT ![i] = m.p_in]
           /\ efficiency' = [efficiency EXCEPT ![i] = m.eff]
           /\ voltage_array' = [voltage_array EXCEPT ![i] = m.volt]
    /\ i' = i + 1
    /\ UNCHANGED <<config, istate, pc, omega_rad, energy_kj, peak_current, avg_efficiency, previous, call>>

MetricsDone ==
    /\ pc = "metrics"
    /\ i = TIME_POINTS
    /\ pc' = "summary"
    /\ UNCHANGED <<config, istate, i, omega_rad, series, energy_kj, peak_current, avg_efficiency, previous, call>>

RECURSIVE sum_between(_, _, _)
sum_between(f, lo, hi) ==
    IF lo = hi THEN f[lo]
    ELSE LET mid == (lo + hi) \div 2
         IN  sum_between(f, lo, mid) + sum_between(f, mid + 1, hi)

RECURSIVE max_between(_, _, _)
max_between(f, lo, hi) ==
    IF lo = hi THEN f[lo]
    ELSE LET mid == (lo + hi) \div 2
             a == max_between(f, lo, mid)
             b == max_between(f, mid + 1, hi)
         IN  IF a >= b THEN a ELSE b

\* np.trapz(y) without the time axis: unit spacing between the samples.
trapz_unit_spacing(y, ramp_seconds) ==
    (2 * sum_between(y, 0, TIME_POINTS - 1) - y[0] - y[TIME_POINTS - 1]) \div 2

\* np.trapz with the sample spacing computed by integer division.
trapz_integer_spacing(y, ramp_seconds) ==
    LET twice == 2 * sum_between(y, 0, TIME_POINTS - 1) - y[0] - y[TIME_POINTS - 1]
    IN  (twice \div 2) * (ramp_seconds \div (TIME_POINTS - 1))

\* np.trapz(y, time): sum of (y[n] + y[n+1]) / 2 * (time[n+1] - time[n]),
\* time[n+1] - time[n] = ramp_seconds / (TIME_POINTS - 1).
trapz(y, ramp_seconds) ==
    LET twice == 2 * sum_between(y, 0, TIME_POINTS - 1) - y[0] - y[TIME_POINTS - 1]
    IN  MulDiv(twice \div 2, ramp_seconds, TIME_POINTS - 1)

\* np.mean(y[y > 0]); the mean of an empty selection is nan.
mean_of_positive(y) ==
    LET chosen == [n \in Samples |-> IF y[n] > 0 THEN y[n] ELSE 0]
        count == [n \in Samples |-> IF y[n] > 0 THEN 1 ELSE 0]
        size == sum_between(count, 0, TIME_POINTS - 1)
    IN  IF size = 0 THEN "nan" ELSE sum_between(chosen, 0, TIME_POINTS - 1) \div size

\* np.max(current).
np_max(y) == max_between(y, 0, TIME_POINTS - 1)

\* v2 line 191: power_array = (torque_array * omega_rad) / 1000.
power_array == [n \in Samples |-> output_power(omega_rad[n], torque[n])]

\* vfd_energy_kj / ss_energy_kj = np.trapz(power_in, time) and the peak
\* np.max(current); v2 reports np.trapz(power_array, time) and np.max(current_array).
Summary ==
    /\ pc = "summary"
    /\ energy_kj' = IF version = "v2"
                    THEN trapz(power_array, RAMP_TIME)
                    ELSE trapz(power_in, RAMP_TIME)
    /\ peak_current' = np_max(current)
    /\ avg_efficiency' = IF version = "v3" THEN mean_of_positive(efficiency)
                         ELSE avg_efficiency
    /\ pc' = "done"
    /\ UNCHANGED <<config, istate, i, omega_rad, series, previous, call>>

\* The script is run again with a longer RAMP_TIME / VFD_RAMP_TIME, the other
\* parameters as they were; the energy the finished run reported is kept.
Rerun ==
    /\ pc = "done"
    /\ istate = 2
    /\ method = "vfd"
    /\ \E r \in VfdRampTimes :
           /\ r > RAMP_TIME
           /\ RAMP_TIME' = r
    /\ previous' = [ramp |-> RAMP_TIME, energy |-> energy_kj]
    /\ pc' = "odeint"
    /\ i' = 0
    /\ omega_rad' = zeros
    /\ slip' = zeros /\ torque' = zeros /\ current' = zeros
    /\ load_torque_array' = zeros /\ power_in' = zeros /\ power_out' = zeros
    /\ efficiency' = zeros /\ voltage_array' = zeros
    /\ energy_kj' = 0 /\ peak_current' = 0 /\ avg_efficiency' = 0
    /\ istate' = 1
    /\ UNCHANGED <<version, method, LOAD_TYPE, SOFT_START_INITIAL_VOLTAGE, call>>

Next == Odeint \/ OdeintGivesUp \/ OdeintRaises \/ OdeintDone \/ Metrics \/ MetricsDone \/ Summary \/ Rerun

Spec == Init /\ [][Next]_vars

\* ------------------------------------------------- direct-on-line reference
\* len(dol_time): dol_time = np.linspace(0, 5, 500).
DOL_POINTS == 500

\* The alternating series term - term * y / (k + 1) + ... of exp(-y), 0 <= y < 1.
RECURSIVE exp_series(_, _, _)
exp_series(y, k, term) ==
    IF term = 0 THEN 0
    ELSE term - exp_series(y, k + 1, Mul6(term, y) \div (k + 1))

\* np.exp(-x) for x >= 0 in 1e-6: exp(-x / 4) by its series, then squared twice.
exp_neg(x) == Sq6(Sq6(exp_series(x \div 4, 0, ONE)))

\* speed_ratio = 1 - np.exp(-t / tau), tau = 2.0, t = dol_time[k] = 5 * k / (DOL_POINTS - 1).
dol_speed_ratio(k) == ONE - exp_neg(Frac6(5 * k, 2 * (DOL_POINTS - 1)))

\* slip_ratio = 1 - speed_ratio * 0.97.
dol_slip_ratio(k) == ONE - (dol_speed_ratio(k) * 97) \div 100

\* dol_omega[k] of simulate_dol_start, in 0.001 rpm.
dol_omega_at(k) ==
    IF k = 0 THEN 0 ELSE Mul6(SYNC_SPEED_RPM * 970, dol_speed_ratio(k))

\* dol_current[k] without the locked-rotor inrush: the t = 0 sample is FLA.
dol_current_at_no_inrush(k) ==
    IF k = 0 THEN FLA ELSE Mul6(FLA, ONE + (55 * dol_slip_ratio(k)) \div 10)

\* dol_current[k] of simulate_dol_start, in 0.1 A.
dol_current_at(k) ==
    IF k = 0 THEN (FLA * 65) \div 10
    ELSE Mul6(FLA, ONE + (55 * dol_slip_ratio(k)) \div 10)

\* dol_torque[k] of simulate_dol_start, in 0.01 Nm.
dol_torque_at(k) ==
    IF k = 0 THEN (RATED_TORQUE * 25) \div 10
    ELSE Mul6(RATED_TORQUE, (25 * dol_slip_ratio(k)) \div 10 + ONE)

DolSamples == 0 .. (DOL_POINTS - 1)

\* What simulate_dol_start returns, and the peak the script takes of it.
simulate_dol_start ==
    LET dol_current == [k \in DolSamples |-> dol_current_at(k)]
    IN  [fn |-> "simulate_dol_start",
         dol_omega |-> [k \in DolSamples |-> dol_omega_at(k)],
         dol_current |-> dol_current,
         dol_torque |-> [k \in DolSamples |-> dol_torque_at(k)],
         dol_peak_current |-> max_between(dol_current, 0, DOL_POINTS - 1)]

\* ------------------------------------------------- the functions, one call
\* Each function of the engine called directly on inputs drawn from grids:
\* calculate_metrics and the derivative functions take any trajectory and any
\* time, get_load_torque any speed ratio and base torque.
OmegaGrid ==
    {-SYNC_SPEED_RAD, -1000, 0, 5000, SYNC_SPEED_RAD \div 20, SYNC_SPEED_RAD \div 2,
     SYNC_SPEED_RAD - 1, SYNC_SPEED_RAD, SYNC_SPEED_RAD + SYNC_SPEED_RAD \div 10}
TickGrid ==
    {0, 1, 4, 5, 6, SubSteps, 2 * SubSteps, 3 * SubSteps, 4 * SubSteps,
     20 * SubSteps, RampTicks \div 2, RampTicks - 1, RampTicks, RampTicks + SubSteps}
SampleGrid == {0, 1, 2, 3, 4, 20, 30, TIME_POINTS \div 2, TIME_POINTS - 2, TIME_POINTS - 1}
SpeedRatioGrid ==
    {-ONE, -1, 0, 1, 50000, 99999, 100000, 100001, ONE \div 2, ONE - 1, ONE,
     ONE + 1, 2 * ONE}
BaseTorqueGrid == {0, 1, 7, 1000, LOAD_TORQUE, RATED_TORQUE}
\* Slips 0, 0.01, ..., 1.
SlipGrid == {k * 10000 : k \in 0 .. 100}
\* Times and ramp times for vfd_freq_func, in one unit.
FreqTimeGrid == 0 .. 40
FreqRampGrid == {1, 7, 30}
\* Frequencies from 0 to base, every 0.25 Hz, and the neighbours of the 10 % threshold.
FreqGrid ==
    {k * 250 : k \in 0 .. (BASE_FREQ \div 250)}
        \cup {1, BASE_FREQ \div 10 - 1, BASE_FREQ \div 10 + 1, BASE_FREQ - 1}

UnitInit ==
    /\ version \in Versions
    /\ method \in (IF version = "v4" THEN {"vfd", "soft_starter"} ELSE {"vfd"})
    /\ LOAD_TYPE \in (IF version = "v2" THEN {"constant_torque"} ELSE LoadTypes)
    /\ RAMP_TIME = (IF method = "vfd" THEN 30 ELSE 20)
    /\ SOFT_START_INITIAL_VOLTAGE \in
           (IF method = "soft_starter" THEN InitialVoltages ELSE {300000})
    /\ pc = "unit"
    /\ i = 0
    /\ \E w \in OmegaGrid : omega_rad = [n \in Samples |-> w]
    /\ slip = zeros /\ torque = zeros /\ current = zeros
    /\ load_torque_array = zeros /\ power_in = zeros /\ power_out = zeros
    /\ efficiency = zeros /\ voltage_array = zeros
    /\ energy_kj = 0 /\ peak_current = 0 /\ avg_efficiency = 0
    /\ previous = no_previous
    /\ istate = 1
    /\ call = no_call

\* get_load_torque(speed_ratio, base_torque, load_type).
CallLoadTorque ==
    /\ pc = "unit"
    /\ call = no_call
    /\ \E sr \in SpeedRatioGrid, base \in BaseTorqueGrid, lt \in LoadTags :
           call' = [fn |-> "get_load_torque", speed_ratio |-> sr, base_torque |-> base,
                    load_type |-> lt, value |-> get_load_torque(sr, base, lt)]
    /\ UNCHANGED <<config, istate, pc, i, omega_rad, series, energy_kj, peak_current, avg_efficiency, previous>>

\* What the derivative function of the configured script computes at (w, t).
dynamics_call(w, t) ==
    LET freq == vfd_freq_func(t, RampTicks)
    IN  IF method = "soft_starter"
        THEN [fn |-> "dynamics", omega |-> w, t |-> t, regime |-> "soft_starter",
              voltage_ratio |->
                  soft_start_voltage_ratio(t, RampTicks, SOFT_START_INITIAL_VOLTAGE),
              slip |-> soft_start_slip(w),
              torque_em |->
                  soft_start_torque(soft_start_slip(w),
                      soft_start_voltage_ratio(t, RampTicks, SOFT_START_INITIAL_VOLTAGE)),
              value |-> derivative(w, t)]
        ELSE IF vfd_regime(freq) = "degenerate"
        THEN [fn |-> "dynamics", omega |-> w, t |-> t, regime |-> "degenerate",
              freq |-> freq, value |-> derivative(w, t)]
        ELSE [fn |-> "dynamics", omega |-> w, t |-> t, regime |-> vfd_regime(freq),
              freq |-> freq, slip |-> vfd_slip(w, freq),
              torque_em |-> vfd_torque_em(w, freq), value |-> derivative(w, t)]

CallDynamics ==
    /\ pc = "unit"
    /\ call = no_call
    /\ \E t \in TickGrid : call' = dynamics_call(omega_rad[0], t)
    /\ UNCHANGED <<config, istate, pc, i, omega_rad, series, energy_kj, peak_current, avg_efficiency, previous>>

\* One pass of the metrics loop on the trajectory at hand.
CallMetrics ==
    /\ pc = "unit"
    /\ call = no_call
    /\ \E n \in SampleGrid :
           call' = [fn |-> "metrics", n |-> n, omega |-> omega_rad[n],
                    out |-> metrics_sample(n)]
    /\ UNCHANGED <<config, istate, pc, i, omega_rad, series, energy_kj, peak_current, avg_efficiency, previous>>

\* torque_ratio = (a * slip) / (slip**2 + b * slip + c) on its own.
CallTorqueRatio ==
    /\ pc = "unit"
    /\ call = no_call
    /\ \E s \in SlipGrid :
           call' = [fn |-> "torque_ratio", slip |-> s, value |-> torque_ratio(s)]
    /\ UNCHANGED <<config, istate, pc, i, omega_rad, series, energy_kj, peak_current, avg_efficiency, previous>>

\* vfd_freq_func(t, ramp_time) / freq_func(t).
CallFreq ==
    /\ pc = "unit"
    /\ call = no_call
    /\ \E t \in FreqTimeGrid, r \in FreqRampGrid :
           call' = [fn |-> "vfd_freq_func", t |-> t, ramp_time |-> r,
                    value |-> vfd_freq_func(t, r)]
    /\ UNCHANGED <<config, istate, pc, i, omega_rad, series, energy_kj, peak_current, avg_efficiency, previous>>

\* vfd_voltage_func(freq) / voltage_func(freq).
CallVoltage ==
    /\ pc = "unit"
    /\ call = no_call
    /\ \E f \in FreqGrid :
           call' = [fn |-> "vfd_voltage_func", freq |-> f,
                    boost |-> IF f < BASE_FREQ \div 10 THEN voltage_boost(f) ELSE 0,
                    value |-> vfd_voltage_func(f)]
    /\ UNCHANGED <<config, istate, pc, i, omega_rad, series, energy_kj, peak_current, avg_efficiency, previous>>

\* dol_time, dol_omega, dol_current, dol_torque = simulate_dol_start() of v3.
CallSimulateDol ==
    /\ pc = "unit"
    /\ call = no_call
    /\ version = "v3"
    /\ call' = simulate_dol_start
    /\ UNCHANGED <<config, istate, pc, i, omega_rad, series, energy_kj, peak_current, avg_efficiency, previous>>

UnitNext ==
    \/ CallLoadTorque \/ CallDynamics \/ CallMetrics \/ CallTorqueRatio \/ CallFreq
    \/ CallVoltage \/ CallSimulateDol

SpecUnit == UnitInit /\ [][UnitNext]_vars


\* ------------------------------------------------------------------ claims
\* The metrics loop has passed sample n.
processed(n) ==
    \/ pc = "metrics" /\ n < i
    \/ pc \in {"summary", "done"}

\* C1: every sample of a VFD run and of a soft-starter run of v4 has
\* 0 <= omega <= synchronous speed at base frequency.
C1_SpeedInRange ==
    (version = "v4" /\ pc = "odeint")
        => (0 <= omega_rad[i] /\ omega_rad[i] <= SYNC_SPEED_RAD)

\* C2: every slip the torque model and the metrics engine compute is in
\* [0, 1] (0 .. 100 as a percentage), whatever the rotor speed and frequency.
C2_SlipInUnitRange ==
    /\ (call.fn = "dynamics" /\ call.regime # "degenerate")
           => (0 <= call.slip /\ call.slip <= ONE)
    /\ (call.fn = "metrics")
           => (0 <= call.out.slip /\ call.out.slip <= 100 * ONE)

\* C2 witness: a rotor far above synchronous speed in the startup regime, slip 0.
C2_Witness ==
    /\ call.fn = "dynamics"
    /\ call.regime = "startup"
    /\ call.omega > SYNC_SPEED_RAD
    /\ call.slip = 0

\* C3: every VFD sample below 0.5 Hz is reported with slip = 100 % and
\* torque = current = load torque = 0, in every variant of the metrics.
C3_InactiveSamplesReported ==
    \A n \in Samples :
        (processed(n) /\ method = "vfd" /\ vfd_freq_func(time(n), RampTicks) < 500)
            => /\ slip[n] = 100 * ONE
               /\ torque[n] = 0
               /\ current[n] = 0
               /\ load_torque_array[n] = 0

\* C4: the load torque is >= 0, <= base for constant_torque and fan_pump,
\* <= 10 * base for constant_power, and speed ratios outside [0, 1] give the
\* value at the nearer end of [0, 1].
C4_LoadTorqueBounded ==
    (call.fn = "get_load_torque" /\ call.load_type \in LoadTypes)
        => /\ call.value >= 0
           /\ call.load_type \in {"constant_torque", "fan_pump"}
                  => call.value <= call.base_torque
           /\ call.load_type = "constant_power"
                  => call.value <= 10 * call.base_torque
           /\ call.speed_ratio < 0
                  => call.value = get_load_torque(0, call.base_torque, call.load_type)
           /\ call.speed_ratio > ONE
                  => call.value = get_load_torque(ONE, call.base_torque, call.load_type)

\* C4 witness: constant_power at the 0.1 floor attains 10 * base.
C4_Witness ==
    /\ call.fn = "get_load_torque"
    /\ call.load_type = "constant_power"
    /\ call.speed_ratio = 100000
    /\ call.base_torque = LOAD_TORQUE
    /\ call.value = 10 * LOAD_TORQUE

\* C5 as stated: for the reference motor and load and any ramp duration, the
\* VFD peak current of a run that odeint completed is below 2.0 * FLA.
C5_PeakBelowTwiceFLA_AnyRamp ==
    (pc = "done" /\ istate = 2 /\ method = "vfd" /\ LOAD_TYPE = "constant_torque")
        => peak_current < 2 * FLA

\* C5: for the reference motor and load the VFD peak current of a run that
\* odeint completed is below the
\* direct-on-line inrush of 6.5 * FLA for every ramp duration, and below
\* 2.0 * FLA for the reference ramp of 30 s.
C5_PeakBelowInrush ==
    (pc = "done" /\ istate = 2 /\ method = "vfd" /\ LOAD_TYPE = "constant_torque")
        => /\ 10 * peak_current < 65 * FLA
           /\ RAMP_TIME = 30 => peak_current < 2 * FLA

\* C5 witness: a finished 30 s reference run whose peak exceeds FLA.
C5_Witness ==
    /\ pc = "done"
    /\ version = "v4"
    /\ method = "vfd"
    /\ LOAD_TYPE = "constant_torque"
    /\ RAMP_TIME = 30
    /\ peak_current > FLA
    /\ peak_current < 2 * FLA

\* C6: the trapezoidal startup energy is strictly positive for every run in
\* which at least one sample has a current above 0.
C6_EnergyPositive ==
    (pc = "done" /\ \E n \in Samples : current[n] > 0)
        => energy_kj > 0

\* C6 witness: a finished v3 run that draws current at its last sample.
C6_Witness ==
    /\ pc = "done"
    /\ version = "v3"
    /\ current[0] = 0
    /\ current[TIME_POINTS - 1] > 0
    /\ energy_kj > 0

\* C7: the VFD startup energy of runs that odeint completed does not decrease
\* when the ramp duration grows.
C7_EnergyMonotoneInRamp ==
    (pc = "done" /\ istate = 2 /\ previous.ramp > 0 /\ previous.ramp <= RAMP_TIME)
        => previous.energy <= energy_kj

\* C7 witness: a 10 s run followed by a 30 s run of the same v4 configuration.
C7_Witness ==
    /\ pc = "done"
    /\ version = "v4"
    /\ previous.ramp = 10
    /\ RAMP_TIME = 30
    /\ previous.energy > 0
    /\ previous.energy < energy_kj

\* C8: with an initial voltage fraction of 1.0 the soft starter's voltage
\* ratio is 1 at every time and its torque is the full-voltage curve
\* RATED_TORQUE * (2.5 * slip) / (slip^2 + 0.15 * slip + 0.08), in the
\* dynamics and in the metrics.
C8_FullVoltageSoftStart ==
    (method = "soft_starter" /\ SOFT_START_INITIAL_VOLTAGE = ONE)
        => /\ call.fn = "dynamics"
                  => /\ call.voltage_ratio = ONE
                     /\ call.torque_em = Mul6(RATED_TORQUE, torque_ratio(call.slip))
           /\ call.fn = "metrics"
                  => /\ call.out.volt = VOLTAGE
                     /\ call.out.torque
                            = Mul6(RATED_TORQUE, torque_ratio(call.out.slip \div 100))

\* C8 witness: the dynamics at t = 0 and standstill with full voltage.
C8_Witness ==
    /\ method = "soft_starter"
    /\ SOFT_START_INITIAL_VOLTAGE = ONE
    /\ call.fn = "dynamics"
    /\ call.t = 0
    /\ call.omega = 0
    /\ call.voltage_ratio = ONE
    /\ call.torque_em > RATED_TORQUE

\* C9: at speed ratio 0 the load torque is exactly 0 for fan_pump and
\* 0.3 * base for constant_torque.
C9_LoadTorqueAtStandstill ==
    (call.fn = "get_load_torque" /\ call.speed_ratio = 0)
        => /\ call.load_type = "fan_pump" => call.value = 0
           /\ call.load_type = "constant_torque"
                  => call.value = (3 * call.base_torque) \div 10

\* C9 witness: the constant_torque breakaway torque of the reference load.
C9_Witness ==
    /\ call.fn = "get_load_torque"
    /\ call.speed_ratio = 0
    /\ call.load_type = "constant_torque"
    /\ call.base_torque = LOAD_TORQUE
    /\ call.value = (3 * LOAD_TORQUE) \div 10
    /\ call.value > 0

\* C10 as stated: every sample of the current series of every run is at
\* least 0.3 * FLA.
C10_CurrentFloor_EverySample ==
    \A n \in Samples : processed(n) => current[n] >= magnetizing_component

\* C10: every soft-starter sample and every VFD sample at 0.5 Hz or above has
\* a current of at least 0.3 * FLA; the VFD samples below 0.5 Hz have current 0.
C10_CurrentFloor ==
    \A n \in Samples :
        processed(n)
            => IF method = "vfd" /\ vfd_freq_func(time(n), RampTicks) < 500
               THEN current[n] = 0
               ELSE current[n] >= magnetizing_component

\* C10 witness: a finished VFD run with an inactive first sample and an
\* active last sample.
C10_Witness ==
    /\ pc = "done"
    /\ method = "vfd"
    /\ current[0] = 0
    /\ current[TIME_POINTS - 1] >= magnetizing_component

\* C11: a configuration with a ramp duration <= 0 or an unsupported load tag
\* is rejected before any integration starts: odeint never runs with it and
\* no division by the ramp duration is evaluated.
C11_InvalidConfigurationRejected ==
    (LOAD_TYPE \notin LoadTypes \/ RAMP_TIME <= 0)
        => (pc = "odeint" /\ i = 0)

\* C12: for every sample the efficiency is 100 * power_out / power_in when
\* power_in > 0 and the sentinel 0 when power_in <= 0, and the slip is the
\* sentinel 100 % when the synchronous speed of the sample is not positive.
C12_MetricsSentinels ==
    \A n \in Samples :
        processed(n)
            => /\ power_in[n] > 0
                      => efficiency[n] = efficiency_of(power_out[n], power_in[n])
               /\ power_in[n] <= 0 => efficiency[n] = 0
               /\ (method = "vfd" /\ sync_speed(vfd_freq_func(time(n), RampTicks)) <= 0)
                      => slip[n] = 100 * ONE

\* C13: a non-converged integration is never processed further like a
\* successful trajectory: after LSODA gave up, no metrics and no summary are
\* computed from what odeint returned.
C13_NonConvergenceReported ==
    istate < 0 => pc \notin {"metrics", "summary", "done"}

\* Element n of every series is what the metrics loop computes from time[n]
\* and omega_rad[n].
aligned(n) ==
    LET m == IF version = "v2" THEN metrics_v2(n)
             ELSE IF version = "v3" THEN metrics_v3(n)
             ELSE calculate_metrics(n, method, RampTicks)
    IN  /\ slip[n] = m.slip
        /\ torque[n] = m.torque
        /\ current[n] = m.current
        /\ load_torque_array[n] = m.load
        /\ power_out[n] = m.p_out
        /\ power_in[n] = m.p_in
        /\ efficiency[n] = m.eff
        /\ voltage_array[n] = m.volt

C15_UnknownLoadTypeFallsBack ==
    (call.fn = "get_load_torque" /\ call.load_type \notin LoadTypes)
        => call.value
               = Mul6(call.base_torque, 300000 + (7 * clip(call.speed_ratio, 0, ONE)) \div 10)

\* C15 witness: the unknown tag at half speed gives 0.65 * base.
C15_Witness ==
    /\ call.fn = "get_load_torque"
    /\ call.load_type = "hoist"
    /\ call.speed_ratio = ONE \div 2
    /\ call.base_torque = LOAD_TORQUE
    /\ call.value = Mul6(LOAD_TORQUE, 650000)
    /\ call.value > 0

\* C16: at every sample with a VFD setpoint frequency of 0.5 Hz or more, the
\* torque the metrics report equals the torque the derivative function uses
\* for the same omega and t: the startup formula below 1 Hz, the rational
\* curve scaled by freq / BASE_FREQ and the boost factor from 1 Hz on.
C16_MetricsTorqueIsDynamicsTorque ==
    (call.fn = "metrics" /\ method = "vfd"
        /\ vfd_freq_func(time(call.n), RampTicks) >= 500)
        => call.out.torque
               = vfd_torque_em(call.omega, vfd_freq_func(time(call.n), RampTicks))

\* C17: in every regime of every dynamics function the derivative is
\* (torque_em - get_load_torque(omega / SYNC_SPEED_RAD clamped to [0, 1],
\* base load torque, load type) - DAMPING * omega) / INERTIA, the
\* electromagnetic torque being 0 where the synchronous speed is degenerate.
C17_DerivativeUsesLoadModel ==
    call.fn = "dynamics"
        => call.value
               = equation_of_motion(
                     IF call.regime = "degenerate" THEN 0 ELSE call.torque_em,
                     get_load_torque(speed_ratio_of(call.omega), LOAD_TORQUE, LOAD_TYPE),
                     call.omega)

C20_FrequencySetpoint ==
    call.fn = "vfd_freq_func"
        => /\ call.t <= call.ramp_time
                  => call.value = (BASE_FREQ * call.t) \div call.ramp_time
           /\ call.t > call.ramp_time => call.value = BASE_FREQ
           /\ call.t = 0 => call.value = 0
           /\ call.t = call.ramp_time => call.value = BASE_FREQ
           /\ 0 <= call.value /\ call.value <= BASE_FREQ
           /\ call.value <= vfd_freq_func(call.t + 1, call.ramp_time)

\* C20 witness: a setpoint strictly inside the ramp.
C20_Witness ==
    /\ call.fn = "vfd_freq_func"
    /\ call.ramp_time = 30
    /\ call.t = 10
    /\ call.value = BASE_FREQ \div 3

\* C21: the VFD voltage is lineVoltage * freq / baseFreq from 10 % of base
\* frequency upwards, and that plus the boost lineVoltage * boostFraction *
\* (1 - freq / (0.1 * baseFreq)) below it; the boost is never negative, it is
\* zero at the threshold, so both branches agree there, and the voltage lies in
\* [0, lineVoltage] for every frequency from 0 to base.
C21_VoltageProfile ==
    call.fn = "vfd_voltage_func" =>
        LET volts_per_hertz == Mul6(VOLTAGE, Frac6(call.freq, BASE_FREQ))
            threshold == BASE_FREQ \div 10
        IN  /\ call.freq >= threshold => call.value = volts_per_hertz
            /\ call.freq < threshold =>
                   /\ call.boost =
                          Mul6(Mul6(VOLTAGE, V_BOOST), ONE - Frac6(call.freq, threshold))
                   /\ call.value = volts_per_hertz + call.boost
            /\ call.boost >= 0
            /\ call.freq = threshold =>
                   /\ voltage_boost(threshold) = 0
                   /\ call.value = volts_per_hertz + voltage_boost(threshold)
            /\ call.value >= 0
            /\ call.value <= VOLTAGE

\* A boosted call just below the threshold, and one just above it, both happen.
C21_Witness ==
    /\ call.fn = "vfd_voltage_func"
    /\ call.freq = BASE_FREQ \div 10 - 250
    /\ call.boost > 0
    /\ call.value > Mul6(VOLTAGE, Frac6(call.freq, BASE_FREQ))
    /\ call.value < VOLTAGE

\* C22: under the soft starter the synchronous speed is the base value at every
\* time, in the derivative function and in the metrics loop alike; the voltage is
\* lineVoltage * (initialFraction + (1 - initialFraction) * t / rampDuration)
\* during the ramp and lineVoltage after it: it starts at initialFraction *
\* lineVoltage, never decreases, is lineVoltage exactly at the end of the ramp
\* and never exceeds lineVoltage.
C22_SoftStarterProfile ==
    /\ (call.fn = "metrics" /\ method = "soft_starter") =>
           LET initial == SOFT_START_INITIAL_VOLTAGE
               t == time(call.n)
           IN  /\ call.out.slip = 100 * clip_slip(raw_slip(SYNC_SPEED_RAD, call.omega))
               /\ call.out.volt =
                      Mul6(VOLTAGE, initial + Mul6(ONE - initial, Frac6(t, RampTicks)))
               /\ call.n = 0 => call.out.volt = Mul6(VOLTAGE, initial)
               /\ call.n = TIME_POINTS - 1 => call.out.volt = VOLTAGE
               /\ call.out.volt <= VOLTAGE
               /\ \A m \in SampleGrid :
                      m >= call.n =>
                          soft_start_voltage_func(time(m), RampTicks, initial)
                              >= call.out.volt
    /\ (call.fn = "dynamics" /\ call.regime = "soft_starter") =>
           /\ call.slip = clip_slip(raw_slip(SYNC_SPEED_RAD, call.omega))
           /\ call.t = 0 => call.voltage_ratio = SOFT_START_INITIAL_VOLTAGE
           /\ call.t >= RampTicks => call.voltage_ratio = ONE
           /\ call.voltage_ratio <= ONE

\* A metrics pass half way up a ramp that starts at 30 % of line voltage.
C22_Witness ==
    /\ call.fn = "metrics"
    /\ method = "soft_starter"
    /\ SOFT_START_INITIAL_VOLTAGE = 300000
    /\ call.n = TIME_POINTS \div 2
    /\ call.out.volt > Mul6(VOLTAGE, 300000)
    /\ call.out.volt < VOLTAGE

\* C23 as stated: in the soft-starter metrics every sample whose voltage ratio
\* is above 0.3 has the current sqrt(torqueComponent^2 + (0.3 * FLA)^2)
\* multiplied by 1.2 / voltageRatio, every sample at or below 0.3 has the
\* un-inflated current, and VFD samples are never inflated.
C23_InflatedAboveThreshold ==
    (call.fn = "metrics" /\ version = "v4") =>
        LET plain == motor_current(call.out.torque)
            voltage_ratio == Frac6(call.out.volt, VOLTAGE)
        IN  /\ (method = "soft_starter" /\ voltage_ratio > 300000) =>
                   call.out.current = Mul6(plain, Frac6(1200000, voltage_ratio))
            /\ (method = "soft_starter" /\ voltage_ratio <= 300000) =>
                   call.out.current = plain
            /\ (method = "vfd" /\ vfd_freq_func(time(call.n), RampTicks) >= 500) =>
                   call.out.current = plain

\* C23, amended: the inflation by 1.2 / voltageRatio applies to the samples
\* before the end of the ramp (t < rampDuration) whose voltage ratio is above
\* 0.3; the sample at the end of the ramp, where the voltage ratio is 1, and
\* every sample at or below 0.3 have the un-inflated current, and VFD samples
\* are never inflated.
C23_InflatedDuringRamp ==
    (call.fn = "metrics" /\ version = "v4") =>
        LET plain == motor_current(call.out.torque)
            voltage_ratio == Frac6(call.out.volt, VOLTAGE)
            ramping == time(call.n) < RampTicks
        IN  /\ (method = "soft_starter" /\ ramping /\ voltage_ratio > 300000) =>
                   call.out.current = Mul6(plain, Frac6(1200000, voltage_ratio))
            /\ (method = "soft_starter" /\ (~ramping \/ voltage_ratio <= 300000)) =>
                   call.out.current = plain
            /\ (method = "vfd" /\ vfd_freq_func(time(call.n), RampTicks) >= 500) =>
                   call.out.current = plain

\* An inflated sample half way up the ramp, with torque being produced.
C23_Witness ==
    /\ call.fn = "metrics"
    /\ method = "soft_starter"
    /\ SOFT_START_INITIAL_VOLTAGE = 300000
    /\ call.n = TIME_POINTS \div 2
    /\ call.out.torque > 0
    /\ Frac6(call.out.volt, VOLTAGE) > 300000
    /\ call.out.current > motor_current(call.out.torque)

\* C24: the direct-on-line approximation has current 6.5 * FLA, torque
\* 2.5 * ratedTorque and speed 0 at the t = 0 sample; the maximum of its current
\* series is exactly 6.5 * FLA, no later sample being above the inrush; its
\* speed never exceeds 0.97 times the synchronous speed.
C24_DolInrush ==
    call.fn = "simulate_dol_start" =>
        /\ 10 * call.dol_current[0] = 65 * FLA
        /\ 10 * call.dol_torque[0] = 25 * RATED_TORQUE
        /\ call.dol_omega[0] = 0
        /\ 10 * call.dol_peak_current = 65 * FLA
        /\ \A k \in DolSamples :
               /\ call.dol_current[k] <= call.dol_current[0]
               /\ call.dol_omega[k] <= 970 * SYNC_SPEED_RPM

\* The approximation has run: the motor is well up to speed at the last sample
\* and draws less than a quarter of the inrush.
C24_Witness ==
    /\ call.fn = "simulate_dol_start"
    /\ call.dol_omega[DOL_POINTS - 1] > 800 * SYNC_SPEED_RPM
    /\ call.dol_current[DOL_POINTS - 1] > FLA
    /\ 4 * call.dol_current[DOL_POINTS - 1] < call.dol_peak_current

\* C25: the direct-on-line current series and torque series decay from their
\* locked-rotor values: from the t = 0 sample on each sample is at most the one
\* before it, and each stays at or above its rated value.
C25_DolSeriesDecay ==
    call.fn = "simulate_dol_start" =>
        /\ \A k \in DolSamples :
               k + 1 < DOL_POINTS =>
                   /\ call.dol_current[k + 1] <= call.dol_current[k]
                   /\ call.dol_torque[k + 1] <= call.dol_torque[k]
        /\ \A k \in DolSamples :
               /\ call.dol_current[k] >= FLA
               /\ call.dol_torque[k] >= RATED_TORQUE

\* C26: the average efficiency of the summary is the arithmetic mean of the
\* efficiency series over exactly the samples whose input power is above zero:
\* a sample with input power and an efficiency of zero or below counts, a
\* sample without input power does not.
C26_AverageOverPoweredSamples ==
    (pc = "done" /\ version = "v3" /\ istate = 2) =>
        LET powered == {n \in Samples : power_in[n] > 0}
            chosen == [n \in Samples |-> IF n \in powered THEN efficiency[n] ELSE 0]
        IN  /\ powered # {}
            /\ avg_efficiency
                   = sum_between(chosen, 0, TIME_POINTS - 1) \div Cardinality(powered)

\* C27: every sample of the efficiency series of a VFD run and of a
\* soft-starter run lies between 0 and 100 percent: the output power
\* omega * load torque is never negative and never above the input power of
\* the same sample.
C27_EfficiencyInRange ==
    (pc = "done" /\ istate = 2 /\ version \in {"v3", "v4"}) =>
        \A n \in Samples :
            /\ efficiency[n] >= 0
            /\ efficiency[n] <= 10000
            /\ power_out[n] >= 0
            /\ power_out[n] <= power_in[n]
====
